---- MODULE Spec2Model ----
(***************************************************************************)
(* Lifecycle engine of the katana hypervisor daemon: the state database,   *)
(* the request handlers of katana-daemon (create, destroy, start, stop,    *)
(* pause, resume, suspend, reset) and the hypervisor processes they spawn  *)
(* and signal.  Handlers run as concurrent tasks; every call on the state  *)
(* database is atomic (one mutex around the connection), every external    *)
(* effect (spawn, signal, control-socket round trip) is a step of its own. *)
(***************************************************************************)
EXTENDS Integers, Sequences, FiniteSets, TLC

\* ---------------------------------------------------------------- bounds
MaxId == 3          \* instance ids (uuids) handed out in one behaviour
MaxPid == 2         \* hypervisor processes spawned in one behaviour
MaxPolls == 1       \* liveness polls of stop_vm before the grace period is over
MaxRequests == 4    \* requests the daemon accepts in one behaviour
MaxClock == 2       \* seconds the wall clock advances in one behaviour

Names == {"a"}
Threads == {"h1", "h2"}
BasePort == 5050
PortRange == {5050, 5051}
NoPid == 0
NoPort == 0

VARIABLES
    instances,   \* rows of the instances table
    ports,       \* rows of the ports table
    storage,     \* instance ids whose storage directory exists
    procs,       \* live hypervisor processes: [pid, id]
    nextId,      \* next fresh instance id
    nextPid,     \* next process id the OS hands out
    requests,    \* requests accepted so far
    th,          \* per handler task: program counter and locals
    clock,       \* chrono::Utc::now().timestamp(): the wall clock in seconds
    caller       \* a caller of StateDatabase: its InstanceState and its last results

vars == <<instances, ports, storage, procs, nextId, nextPid, requests, th, clock, caller>>

\* ------------------------------------------------------------ the statuses
StatusTags == {"Created", "Starting", "Running", "Pausing", "Paused", "Resuming",
               "Suspending", "Suspended", "Stopping", "Stopped", "Failed"}

St(tag) == [tag |-> tag, error |-> <<>>]
Failed(msg) == [tag |-> "Failed", error |-> msg]

can_pause(s) == s.tag = "Running"
can_resume_from_pause(s) == s.tag = "Paused"
can_suspend(s) == s.tag \in {"Running", "Paused"}
can_wake(s) == s.tag = "Suspended"
can_reset(s) == s.tag \in {"Running", "Paused"}

\* InstanceState::new: a record in Created, no pid
NewInstanceState(id, name, port) ==
    [id |-> id, name |-> name, status |-> St("Created"), vm_pid |-> NoPid, rpc_port |-> port]

\* ------------------------------------------------------- the state database
\* get_instance: the rows with that name
GetInstance(name) == {r \in instances : r.name = name}

\* an existence check that finds nothing
instance_exists_Never(name) == FALSE

instance_exists(name) == GetInstance(name) # {}

\* save_instance fails on the UNIQUE(name) constraint when it has to INSERT
SaveFails(state) ==
    /\ \A r \in instances : r.id # state.id
    /\ \E r \in instances : r.name = state.name

\* a save that inserts whatever is there
SaveInstance_AlwaysInsert(state) == instances \cup {state}

\* save_instance: UPDATE the row with that id when there is one, INSERT otherwise
SaveInstance(state) ==
    IF \E r \in instances : r.id = state.id
    THEN {r \in instances : r.id # state.id} \cup {state}
    ELSE IF SaveFails(state) THEN instances ELSE instances \cup {state}

\* delete_instance: DELETE ... WHERE name; the ports of the row go with it
DeleteRows(name) == {r \in instances : r.name # name}
CascadePorts(name) == {p \in ports : \A r \in GetInstance(name) : p.instance_id # r.id}

\* allocate_port fails on a port that is taken or an instance that does not exist
AllocFails(id, port) ==
    \/ \E p \in ports : p.port = port
    \/ \A r \in instances : r.id # id

AllocatePort(id, port) == ports \cup {[port |-> port, instance_id |-> id, port_type |-> "rpc"]}

\* PortAllocator
is_port_available(port) == \A p \in ports : p.port # port
FreePorts == {q \in PortRange : q >= BasePort /\ is_port_available(q)}
LowestFree == CHOOSE q \in FreePorts : \A r \in FreePorts : q <= r

\* ------------------------------------------------------------ handler tasks
NoInst == [id |-> 0, name |-> "", status |-> St("none"), vm_pid |-> NoPid, rpc_port |-> NoPort]

Idle == [pc |-> "idle", op |-> "none", name |-> "", inst |-> NoInst, prev |-> St("none"),
         pid |-> NoPid, err |-> "", polls |-> 0, req_port |-> NoPort, port |-> NoPort,
         result |-> "", journaled |-> FALSE, effects |-> 0, cmds |-> <<>>]

\* no caller of the database layer besides the handlers
NoCaller == [pc |-> "none", state |-> <<>>, got |-> <<>>, result |-> ""]

InFlight(h) == th[h].pc \notin {"idle", "done"}

\* the handler has loaded the record: instance_state and the status it held
Begin(op, name, inst) ==
    [Idle EXCEPT !.op = op, !.name = name, !.inst = inst, !.prev = inst.status]

NotFound(op, name) == [Idle EXCEPT !.op = op, !.name = name, !.pc = "done", !.result = "NotFound"]

Alive(pid) == \E p \in procs : p.pid = pid
SocketServed(id) == \E p \in procs : p.id = id

\* a handler returns: its response is the result kind and its local record
Done(t, result) == [t EXCEPT !.pc = "done", !.result = result, !.polls = 0]

Init ==
    /\ instances = {}
    /\ ports = {}
    /\ storage = {}
    /\ procs = {}
    /\ nextId = 1
    /\ nextPid = 1
    /\ requests = 0
    /\ th = [h \in Threads |-> Idle]
    /\ clock = 0
    /\ caller = NoCaller

\* ------------------------------------------------------------------- start
LaunchErrors == {"spawn", "exit", "pidfile_missing", "pidfile_invalid"}
\* the launch failures that happen after the hypervisor has daemonized
SpawnedAnyway == {"pidfile_missing", "pidfile_invalid"}

\* start_instance, the match on the status: what the handler does next
StartCheck(status) ==
    CASE status.tag = "Running" -> "Ok"
      [] status.tag = "Starting" -> "Conflict"
      [] OTHER -> "proceed"

StartFailedState(inst, e) ==
    [inst EXCEPT !.status = Failed(<<"Failed to launch VM", e>>)]

StartRunningState(inst, pid) ==
    [inst EXCEPT !.status = St("Running"), !.vm_pid = pid]

\* the boot components of the record: both files exist, or the first one missing
BootChecks == {"ok", "Kernel not found", "Initrd not found"}

\* get_instance, the status match and the boot component checks
StartLoad(h, name, boot) ==
    /\ th[h].pc = "idle"
    /\ boot \in BootChecks
    /\ requests < MaxRequests
    /\ requests' = requests + 1
    /\ th' = [th EXCEPT ![h] =
          IF GetInstance(name) = {} THEN NotFound("start", name)
          ELSE LET inst == CHOOSE r \in GetInstance(name) : TRUE
                   t == Begin("start", name, inst)
               IN  IF StartCheck(inst.status) # "proceed" THEN Done(t, StartCheck(inst.status))
                   ELSE IF boot # "ok" THEN Done([t EXCEPT !.err = boot], "Internal")
                   ELSE [t EXCEPT !.pc = "start_journal"]]
    /\ UNCHANGED <<instances, ports, storage, procs, nextId, nextPid, clock, caller>>

\* status = Starting; save_instance?
StartJournal(h) ==
    /\ th[h].pc = "start_journal"
    /\ LET inst == [th[h].inst EXCEPT !.status = St("Starting")]
       IN  /\ instances' = SaveInstance(inst)
           /\ th' = [th EXCEPT ![h] =
                 IF SaveFails(inst) THEN Done([@ EXCEPT !.inst = inst], "Database")
                 ELSE [@ EXCEPT !.inst = inst, !.pc = "start_launch", !.journaled = TRUE]]
    /\ UNCHANGED <<ports, storage, procs, nextId, nextPid, requests, clock, caller>>

\* vm_manager.launch_vm: spawn, wait for the spawn, read the pid file
StartLaunch(h, outcome) ==
    /\ th[h].pc = "start_launch"
    /\ outcome \in {"ok"} \cup LaunchErrors
    /\ IF outcome \in {"ok"} \cup SpawnedAnyway
       THEN /\ nextPid <= MaxPid
            /\ procs' = procs \cup {[pid |-> nextPid, id |-> th[h].inst.id]}
            /\ nextPid' = nextPid + 1
       ELSE UNCHANGED <<procs, nextPid>>
    /\ th' = [th EXCEPT ![h] =
          [@ EXCEPT !.pc = "start_final", !.effects = @ + 1,
                    !.cmds = Append(@, "spawn"),
                    !.pid = IF outcome = "ok" THEN nextPid ELSE NoPid,
                    !.err = IF outcome = "ok" THEN "" ELSE outcome]]
    /\ UNCHANGED <<instances, ports, storage, nextId, requests, clock, caller>>

\* the map_err closure (Failed, save ignored) or Running with the pid, save?
StartFinal(h) ==
    /\ th[h].pc = "start_final"
    /\ LET t == th[h]
           inst == IF t.err # "" THEN StartFailedState(t.inst, t.err)
                   ELSE StartRunningState(t.inst, t.pid)
       IN  /\ instances' = SaveInstance(inst)
           /\ th' = [th EXCEPT ![h] =
                 Done([t EXCEPT !.inst = inst],
                      IF t.err # "" THEN "Internal"
                      ELSE IF SaveFails(inst) THEN "Database" ELSE "Ok")]
    /\ UNCHANGED <<ports, storage, procs, nextId, nextPid, requests, clock, caller>>

\* -------------------------------------------------------------------- stop
\* stop_instance, the match on the status
StopCheck(status) ==
    CASE status.tag \in {"Stopped", "Created", "Failed"} -> "Ok"
      [] status.tag = "Stopping" -> "Conflict"
      [] status.tag \in {"Running", "Paused", "Suspended"} -> "proceed"
      [] OTHER -> "BadRequest"

StopFailedState(inst) == [inst EXCEPT !.status = St("Running")]

\* a stop that forgets to clear the pid
StopStoppedState_KeepsPid(inst) == [inst EXCEPT !.status = St("Stopped")]

StopStoppedState(inst) == [inst EXCEPT !.status = St("Stopped"), !.vm_pid = NoPid]

StopLoad(h, name) ==
    /\ th[h].pc = "idle"
    /\ requests < MaxRequests
    /\ requests' = requests + 1
    /\ th' = [th EXCEPT ![h] =
          IF GetInstance(name) = {} THEN NotFound("stop", name)
          ELSE LET inst == CHOOSE r \in GetInstance(name) : TRUE
                   t == Begin("stop", name, inst)
               IN  IF StopCheck(inst.status) # "proceed" THEN Done(t, StopCheck(inst.status))
                   ELSE IF inst.vm_pid = NoPid THEN Done(t, "Internal")
                   ELSE [t EXCEPT !.pc = "stop_journal", !.pid = inst.vm_pid]]
    /\ UNCHANGED <<instances, ports, storage, procs, nextId, nextPid, clock, caller>>

StopJournal(h) ==
    /\ th[h].pc = "stop_journal"
    /\ LET inst == [th[h].inst EXCEPT !.status = St("Stopping")]
       IN  /\ instances' = SaveInstance(inst)
           /\ th' = [th EXCEPT ![h] =
                 IF SaveFails(inst) THEN Done([@ EXCEPT !.inst = inst], "Database")
                 ELSE [@ EXCEPT !.inst = inst, !.pc = "stop_term", !.journaled = TRUE]]
    /\ UNCHANGED <<ports, storage, procs, nextId, nextPid, requests, clock, caller>>

\* stop_vm: kill(pid, SIGTERM); ESRCH when there is no such process
StopTerm(h) ==
    /\ th[h].pc = "stop_term"
    /\ th' = [th EXCEPT ![h] =
          IF Alive(th[h].pid)
          THEN [@ EXCEPT !.pc = "stop_poll", !.effects = @ + 1,
                         !.cmds = Append(@, "SIGTERM")]
          ELSE [@ EXCEPT !.pc = "stop_final", !.effects = @ + 1,
                         !.cmds = Append(@, "SIGTERM"), !.err = "SIGTERM"]]
    /\ UNCHANGED <<instances, ports, storage, procs, nextId, nextPid, requests, clock, caller>>

\* a wait loop that gives up on a process that is gone as on one that is alive
StopPoll_KillsAnyway(h) ==
    /\ th[h].pc = "stop_poll"
    /\ th' = [th EXCEPT ![h] =
          IF th[h].polls + 1 < MaxPolls /\ Alive(th[h].pid) THEN [@ EXCEPT !.polls = @ + 1]
          ELSE [@ EXCEPT !.pc = "stop_kill", !.polls = 0]]
    /\ UNCHANGED <<instances, ports, storage, procs, nextId, nextPid, requests, clock, caller>>

\* stop_vm: one turn of the wait loop; after MaxPolls turns the grace period is over
StopPoll(h) ==
    /\ th[h].pc = "stop_poll"
    /\ th' = [th EXCEPT ![h] =
          IF ~Alive(th[h].pid) THEN [@ EXCEPT !.pc = "stop_final", !.polls = 0]
          ELSE IF th[h].polls + 1 < MaxPolls THEN [@ EXCEPT !.polls = @ + 1]
          ELSE [@ EXCEPT !.pc = "stop_kill", !.polls = 0]]
    /\ UNCHANGED <<instances, ports, storage, procs, nextId, nextPid, requests, clock, caller>>

\* kill_vm: kill(pid, SIGKILL); ESRCH when the process is gone by now
StopKill(h) ==
    /\ th[h].pc = "stop_kill"
    /\ procs' = {p \in procs : p.pid # th[h].pid}
    /\ th' = [th EXCEPT ![h] =
          [@ EXCEPT !.pc = "stop_final", !.effects = @ + 1,
                    !.cmds = Append(@, "SIGKILL"),
                    !.err = IF Alive(th[h].pid) THEN "" ELSE "SIGKILL"]]
    /\ UNCHANGED <<instances, ports, storage, nextId, nextPid, requests, clock, caller>>

StopFinal(h) ==
    /\ th[h].pc = "stop_final"
    /\ LET t == th[h]
           inst == IF t.err # "" THEN StopFailedState(t.inst) ELSE StopStoppedState(t.inst)
       IN  /\ instances' = SaveInstance(inst)
           /\ th' = [th EXCEPT ![h] =
                 Done([t EXCEPT !.inst = inst],
                      IF t.err # "" THEN "Internal"
                      ELSE IF SaveFails(inst) THEN "Database" ELSE "Ok")]
    /\ UNCHANGED <<ports, storage, procs, nextId, nextPid, requests, clock, caller>>

\* ------------------------------------------- the control-socket operations
\* a QMP round trip: connect fails when no hypervisor serves the socket of the
\* instance; a served socket may still answer with an error
CmdOutcomes(id) == IF SocketServed(id) THEN {"ok", "err"} ELSE {"err"}

\* checks that do not return early on the terminal status
Check_NoShortcut(status, terminal, intermediate, permitted) ==
    IF status.tag = intermediate THEN "Conflict"
    ELSE IF ~permitted THEN "BadRequest"
    ELSE "proceed"

\* the checks shared by pause, resume, suspend: idempotent, conflict, can_*
Check(status, terminal, intermediate, permitted) ==
    IF status.tag = terminal THEN "Ok"
    ELSE IF status.tag = intermediate THEN "Conflict"
    ELSE IF ~permitted THEN "BadRequest"
    ELSE "proceed"

PauseCheck(status) == Check(status, "Paused", "Pausing", can_pause(status))
ResumeCheck(status) ==
    Check(status, "Running", "Resuming", can_resume_from_pause(status) \/ can_wake(status))
SuspendCheck(status) == Check(status, "Suspended", "Suspending", can_suspend(status))
ResetCheck(status) == IF can_reset(status) THEN "proceed" ELSE "BadRequest"

\* the status each handler writes when its command failed
\* a pause whose failure path does not revert the status
PauseFailedState_NoRevert(inst, prev) == inst

PauseFailedState(inst, prev) == [inst EXCEPT !.status = St("Running")]
ResumeFailedState(inst, prev) == [inst EXCEPT !.status = prev]
SuspendFailedState(inst, prev) == [inst EXCEPT !.status = prev]
ResetFailedState(inst, prev) == [inst EXCEPT !.status = Failed(<<"Failed to reset VM", "qmp">>)]

DeleteCheck(status) ==
    IF status.tag \in {"Running", "Starting"} THEN "BadRequest" ELSE "proceed"

\* the check each handler makes on the status it loaded
CheckOf(op, status) ==
    CASE op = "pause" -> PauseCheck(status)
      [] op = "resume" -> ResumeCheck(status)
      [] op = "suspend" -> SuspendCheck(status)
      [] op = "reset" -> ResetCheck(status)
      [] op = "delete" -> DeleteCheck(status)

\* where each handler goes on when the check has passed: a Paused instance is
\* resumed first by suspend (before anything is saved) and by reset (after
\* Resuming has been saved)
NextOf(op, status) ==
    CASE op = "pause" -> "pause_journal"
      [] op = "resume" -> "resume_journal"
      [] op = "suspend" -> IF status.tag = "Paused" THEN "suspend_cont" ELSE "suspend_journal"
      [] op = "reset" -> IF status.tag = "Paused" THEN "reset_resuming" ELSE "reset_journal"
      [] op = "delete" -> "delete_storage"

FailedStateOf(op, inst, prev) ==
    CASE op = "pause" -> PauseFailedState(inst, prev)
      [] op = "resume" -> ResumeFailedState(inst, prev)
      [] op = "suspend" -> SuspendFailedState(inst, prev)
      [] op = "reset" -> ResetFailedState(inst, prev)

\* get_instance and the checks of the handler
Load(h, op, name) ==
    /\ th[h].pc = "idle"
    /\ requests < MaxRequests
    /\ requests' = requests + 1
    /\ th' = [th EXCEPT ![h] =
          IF GetInstance(name) = {} THEN NotFound(op, name)
          ELSE LET inst == CHOOSE r \in GetInstance(name) : TRUE
                   t == Begin(op, name, inst)
               IN  IF CheckOf(op, inst.status) # "proceed"
                   THEN Done(t, CheckOf(op, inst.status))
                   ELSE [t EXCEPT !.pc = NextOf(op, inst.status)]]
    /\ UNCHANGED <<instances, ports, storage, procs, nextId, nextPid, clock, caller>>

\* status = <intermediate>; save_instance?
Journal(h, pc, status, next) ==
    /\ th[h].pc = pc
    /\ LET inst == [th[h].inst EXCEPT !.status = St(status)]
       IN  /\ instances' = SaveInstance(inst)
           /\ th' = [th EXCEPT ![h] =
                 IF SaveFails(inst) THEN Done([@ EXCEPT !.inst = inst], "Database")
                 ELSE [@ EXCEPT !.inst = inst, !.pc = next, !.journaled = TRUE]]
    /\ UNCHANGED <<ports, storage, procs, nextId, nextPid, requests, clock, caller>>

\* the QMP command each step sends
CommandOf(pc, prev) ==
    CASE pc = "pause_cmd" -> "stop"
      [] pc = "resume_cmd" -> IF prev.tag = "Suspended" THEN "system_wakeup" ELSE "cont"
      [] pc = "suspend_cont" -> "cont"
      [] pc = "suspend_cmd" -> "system_suspend"
      [] pc = "reset_cont" -> "cont"
      [] pc = "reset_cmd" -> "system_reset"

\* one control-socket command
Command(h, pc, outcome, next) ==
    /\ th[h].pc = pc
    /\ outcome \in CmdOutcomes(th[h].inst.id)
    /\ th' = [th EXCEPT ![h] =
          [@ EXCEPT !.pc = next, !.effects = @ + 1,
                    !.cmds = Append(@, CommandOf(pc, th[h].prev)),
                    !.err = IF outcome = "ok" THEN "" ELSE "qmp"]]
    /\ UNCHANGED <<instances, ports, storage, procs, nextId, nextPid, requests, clock, caller>>

\* the map_err closure (save ignored) or the terminal status, save?
Final(h, pc, terminal) ==
    /\ th[h].pc = pc
    /\ LET t == th[h]
           inst == IF t.err # "" THEN FailedStateOf(t.op, t.inst, t.prev)
                   ELSE [t.inst EXCEPT !.status = St(terminal)]
       IN  /\ instances' = SaveInstance(inst)
           /\ th' = [th EXCEPT ![h] =
                 Done([t EXCEPT !.inst = inst],
                      IF t.err # "" THEN "Internal"
                      ELSE IF SaveFails(inst) THEN "Database" ELSE "Ok")]
    /\ UNCHANGED <<ports, storage, procs, nextId, nextPid, requests, clock, caller>>

\* ------------------------------------------------------------------- pause
PauseLoad(h, name) == Load(h, "pause", name)
PauseJournal(h) == Journal(h, "pause_journal", "Pausing", "pause_cmd")
PauseCmd(h, outcome) == Command(h, "pause_cmd", outcome, "pause_final")
PauseFinal(h) == Final(h, "pause_final", "Paused")

\* ------------------------------------------------------------------ resume
ResumeLoad(h, name) == Load(h, "resume", name)
ResumeJournal(h) == Journal(h, "resume_journal", "Resuming", "resume_cmd")
\* wake_vm when the previous state was Suspended, resume_vm otherwise
ResumeCmd(h, outcome) == Command(h, "resume_cmd", outcome, "resume_final")
ResumeFinal(h) == Final(h, "resume_final", "Running")

\* ----------------------------------------------------------------- suspend
SuspendLoad(h, name) == Load(h, "suspend", name)

\* resume_vm before the suspend; its error is returned as it is
SuspendCont(h, outcome) ==
    /\ th[h].pc = "suspend_cont"
    /\ outcome \in CmdOutcomes(th[h].inst.id)
    /\ th' = [th EXCEPT ![h] =
          IF outcome = "ok"
          THEN [@ EXCEPT !.pc = "suspend_journal", !.effects = @ + 1,
                         !.cmds = Append(@, CommandOf("suspend_cont", th[h].prev))]
          ELSE Done([@ EXCEPT !.effects = @ + 1, !.err = "qmp",
                              !.cmds = Append(@, CommandOf("suspend_cont", th[h].prev))],
                    "Internal")]
    /\ UNCHANGED <<instances, ports, storage, procs, nextId, nextPid, requests, clock, caller>>

SuspendJournal(h) == Journal(h, "suspend_journal", "Suspending", "suspend_cmd")
SuspendCmd(h, outcome) == Command(h, "suspend_cmd", outcome, "suspend_final")
SuspendFinal(h) == Final(h, "suspend_final", "Suspended")

\* ------------------------------------------------------------------- reset
ResetLoad(h, name) == Load(h, "reset", name)

ResetResuming(h) == Journal(h, "reset_resuming", "Resuming", "reset_cont")
ResetCont(h, outcome) ==
    Command(h, "reset_cont", outcome, IF outcome = "ok" THEN "reset_journal" ELSE "reset_rewind")

\* the map_err closure of the resume: the previous state again, save ignored
ResetRewind(h) ==
    /\ th[h].pc = "reset_rewind"
    /\ LET inst == [th[h].inst EXCEPT !.status = th[h].prev]
       IN  /\ instances' = SaveInstance(inst)
           /\ th' = [th EXCEPT ![h] = Done([@ EXCEPT !.inst = inst], "Internal")]
    /\ UNCHANGED <<ports, storage, procs, nextId, nextPid, requests, clock, caller>>

ResetJournal(h) == Journal(h, "reset_journal", "Starting", "reset_cmd")
ResetCmd(h, outcome) == Command(h, "reset_cmd", outcome, "reset_final")
ResetFinal(h) == Final(h, "reset_final", "Running")

\* ------------------------------------------------------------------ create
\* BootComponents::load, instance_exists, the uuid, the size parsing
CreateLoad(h, name, port, request) ==
    /\ th[h].pc = "idle"
    /\ requests < MaxRequests
    /\ requests' = requests + 1
    /\ request \in {"ok", "no_boot_components", "bad_size"}
    /\ LET t == [Idle EXCEPT !.op = "create", !.name = name, !.req_port = port]
       IN  IF request = "no_boot_components"
           THEN /\ th' = [th EXCEPT ![h] = Done([t EXCEPT !.err = request], "Internal")]
                /\ UNCHANGED nextId
           ELSE IF instance_exists(name)
           THEN /\ th' = [th EXCEPT ![h] = Done(t, "Conflict")]
                /\ UNCHANGED nextId
           ELSE /\ nextId <= MaxId
                /\ nextId' = nextId + 1
                /\ th' = [th EXCEPT ![h] =
                      IF request = "bad_size"
                      THEN Done([t EXCEPT !.inst = [NoInst EXCEPT !.id = nextId]], "BadRequest")
                      ELSE [t EXCEPT !.pc = "create_port",
                                     !.inst = [NoInst EXCEPT !.id = nextId]]]
    /\ UNCHANGED <<instances, ports, storage, procs, nextPid, clock, caller>>

CreatePort_HighestFree(h) ==
    /\ th[h].pc = "create_port"
    /\ th' = [th EXCEPT ![h] =
          IF @.req_port # NoPort
          THEN IF is_port_available(@.req_port)
               THEN [@ EXCEPT !.pc = "create_storage", !.port = th[h].req_port]
               ELSE Done(@, "Conflict")
          ELSE IF FreePorts = {} THEN Done(@, "Internal")
               ELSE [@ EXCEPT !.pc = "create_storage",
                              !.port = CHOOSE q \in FreePorts : \A r \in FreePorts : q >= r]]
    /\ UNCHANGED <<instances, ports, storage, procs, nextId, nextPid, requests, clock, caller>>

\* the requested port when it is available, the lowest free one otherwise
CreatePort(h) ==
    /\ th[h].pc = "create_port"
    /\ th' = [th EXCEPT ![h] =
          IF @.req_port # NoPort
          THEN IF is_port_available(@.req_port)
               THEN [@ EXCEPT !.pc = "create_storage", !.port = th[h].req_port]
               ELSE Done(@, "Conflict")
          ELSE IF FreePorts = {} THEN Done(@, "Internal")
               ELSE [@ EXCEPT !.pc = "create_storage", !.port = LowestFree]]
    /\ UNCHANGED <<instances, ports, storage, procs, nextId, nextPid, requests, clock, caller>>

\* create_instance_storage
CreateStorage(h) ==
    /\ th[h].pc = "create_storage"
    /\ storage' = storage \cup {th[h].inst.id}
    /\ th' = [th EXCEPT ![h] = [@ EXCEPT !.pc = "create_save"]]
    /\ UNCHANGED <<instances, ports, procs, nextId, nextPid, requests, clock, caller>>

\* InstanceState::new and save_instance?
CreateSave(h) ==
    /\ th[h].pc = "create_save"
    /\ LET inst == NewInstanceState(th[h].inst.id, th[h].name, th[h].port)
       IN  /\ instances' = SaveInstance(inst)
           /\ th' = [th EXCEPT ![h] =
                 IF SaveFails(inst) THEN Done([@ EXCEPT !.inst = inst], "Database")
                 ELSE [@ EXCEPT !.inst = inst, !.pc = "create_reserve"]]
    /\ UNCHANGED <<ports, storage, procs, nextId, nextPid, requests, clock, caller>>

\* a create that reports success without reserving the port
CreateReserve_NoInsert(h) ==
    /\ th[h].pc = "create_reserve"
    /\ th' = [th EXCEPT ![h] = Done(@, "Ok")]
    /\ UNCHANGED <<instances, ports, storage, procs, nextId, nextPid, requests, clock, caller>>

\* db.allocate_port?
CreateReserve(h) ==
    /\ th[h].pc = "create_reserve"
    /\ LET t == th[h]
       IN  IF AllocFails(t.inst.id, t.port)
           THEN /\ th' = [th EXCEPT ![h] = Done(t, "Database")]
                /\ UNCHANGED ports
           ELSE /\ th' = [th EXCEPT ![h] = Done(t, "Ok")]
                /\ ports' = AllocatePort(t.inst.id, t.port)
    /\ UNCHANGED <<instances, storage, procs, nextId, nextPid, requests, clock, caller>>

\* ----------------------------------------------------------------- destroy
DeleteLoad(h, name) == Load(h, "delete", name)

\* delete_instance_storage
DeleteStorage(h) ==
    /\ th[h].pc = "delete_storage"
    /\ storage' = storage \ {th[h].inst.id}
    /\ th' = [th EXCEPT ![h] = [@ EXCEPT !.pc = "delete_row"]]
    /\ UNCHANGED <<instances, ports, procs, nextId, nextPid, requests, clock, caller>>

\* a delete that leaves the ports of the row behind
DeleteRow_NoCascade(h) ==
    /\ th[h].pc = "delete_row"
    /\ instances' = DeleteRows(th[h].name)
    /\ th' = [th EXCEPT ![h] =
          Done(@, IF GetInstance(th[h].name) = {} THEN "NotFound" ELSE "Ok")]
    /\ UNCHANGED <<ports, storage, procs, nextId, nextPid, requests, clock, caller>>

\* db.delete_instance(name)?
DeleteRow(h) ==
    /\ th[h].pc = "delete_row"
    /\ instances' = DeleteRows(th[h].name)
    /\ ports' = CascadePorts(th[h].name)
    /\ th' = [th EXCEPT ![h] =
          Done(@, IF GetInstance(th[h].name) = {} THEN "NotFound" ELSE "Ok")]
    /\ UNCHANGED <<storage, procs, nextId, nextPid, requests, clock, caller>>

\* ------------------------------------------------------------- environment
\* the response has been sent; the task is gone
Return(h) ==
    /\ th[h].pc = "done"
    /\ th' = [th EXCEPT ![h] = Idle]
    /\ UNCHANGED <<instances, ports, storage, procs, nextId, nextPid, requests, clock, caller>>

\* a hypervisor process exits: on a signal it caught, on a guest shutdown, on a crash
ProcExit(p) ==
    /\ p \in procs
    /\ procs' = procs \ {p}
    /\ UNCHANGED <<instances, ports, storage, nextId, nextPid, th, requests, clock, caller>>

Outcomes == {"ok", "err"}

Next ==
    \/ \E h \in Threads, n \in Names, b \in BootChecks : StartLoad(h, n, b)
    \/ \E h \in Threads : StartJournal(h)
    \/ \E h \in Threads, o \in {"ok"} \cup LaunchErrors : StartLaunch(h, o)
    \/ \E h \in Threads : StartFinal(h)
    \/ \E h \in Threads, n \in Names : StopLoad(h, n)
    \/ \E h \in Threads : StopJournal(h)
    \/ \E h \in Threads : StopTerm(h)
    \/ \E h \in Threads : StopPoll(h)
    \/ \E h \in Threads : StopKill(h)
    \/ \E h \in Threads : StopFinal(h)
    \/ \E h \in Threads, n \in Names : PauseLoad(h, n)
    \/ \E h \in Threads : PauseJournal(h)
    \/ \E h \in Threads, o \in Outcomes : PauseCmd(h, o)
    \/ \E h \in Threads : PauseFinal(h)
    \/ \E h \in Threads, n \in Names : ResumeLoad(h, n)
    \/ \E h \in Threads : ResumeJournal(h)
    \/ \E h \in Threads, o \in Outcomes : ResumeCmd(h, o)
    \/ \E h \in Threads : ResumeFinal(h)
    \/ \E h \in Threads, n \in Names : SuspendLoad(h, n)
    \/ \E h \in Threads, o \in Outcomes : SuspendCont(h, o)
    \/ \E h \in Threads : SuspendJournal(h)
    \/ \E h \in Threads, o \in Outcomes : SuspendCmd(h, o)
    \/ \E h \in Threads : SuspendFinal(h)
    \/ \E h \in Threads, n \in Names : ResetLoad(h, n)
    \/ \E h \in Threads : ResetResuming(h)
    \/ \E h \in Threads, o \in Outcomes : ResetCont(h, o)
    \/ \E h \in Threads : ResetRewind(h)
    \/ \E h \in Threads : ResetJournal(h)
    \/ \E h \in Threads, o \in Outcomes : ResetCmd(h, o)
    \/ \E h \in Threads : ResetFinal(h)
    \/ \E h \in Threads, n \in Names, p \in PortRange \cup {NoPort},
          r \in {"ok", "no_boot_components", "bad_size"} : CreateLoad(h, n, p, r)
    \/ \E h \in Threads : CreatePort(h)
    \/ \E h \in Threads : CreateStorage(h)
    \/ \E h \in Threads : CreateSave(h)
    \/ \E h \in Threads : CreateReserve(h)
    \/ \E h \in Threads, n \in Names : DeleteLoad(h, n)
    \/ \E h \in Threads : DeleteStorage(h)
    \/ \E h \in Threads : DeleteRow(h)
    \/ \E h \in Threads : Return(h)
    \/ \E pid \in 1..MaxPid, id \in 1..MaxId : ProcExit([pid |-> pid, id |-> id])

Spec == Init /\ [][Next]_vars

\* the daemon with the instance "a" at rest after earlier requests: created
\* (and its port reserved), started, paused, suspended, stopped, or failed at
\* its launch; those requests count as one
WarmTags == {"Created", "Running", "Paused", "Suspended", "Stopped", "Failed"}

WarmStatus(tag) == IF tag = "Failed" THEN Failed(<<"Failed to launch VM", "spawn">>) ELSE St(tag)

WarmInit ==
    \E tag \in WarmTags :
        LET spawned == tag \in {"Running", "Paused", "Suspended", "Stopped"}
            alive == tag \in {"Running", "Paused", "Suspended"}
            inst == [NewInstanceState(1, "a", BasePort) EXCEPT
                        !.status = WarmStatus(tag),
                        !.vm_pid = IF alive THEN 1 ELSE NoPid]
        IN  /\ instances = {inst}
            /\ ports = {[port |-> BasePort, instance_id |-> 1, port_type |-> "rpc"]}
            /\ storage = {1}
            /\ procs = IF alive THEN {[pid |-> 1, id |-> 1]} ELSE {}
            /\ nextId = 2
            /\ nextPid = IF spawned THEN 2 ELSE 1
            /\ requests = 1
            /\ th = [h \in Threads |-> Idle]
            /\ clock = 0
            /\ caller = NoCaller

WarmSpec == WarmInit /\ [][Next]_vars

\* ------------------------------------------ the create of the standalone CLI
\* src/src/cli/create.rs goes through the same steps as create_instance and
\* then calls start::execute; two CLI processes share the database file.
\* db.allocate_port?, then on to the start
CliCreateReserve(h) ==
    /\ th[h].pc = "create_reserve"
    /\ LET t == th[h]
       IN  IF AllocFails(t.inst.id, t.port)
           THEN /\ th' = [th EXCEPT ![h] = Done(t, "Database")]
                /\ UNCHANGED ports
           ELSE /\ th' = [th EXCEPT ![h] = [t EXCEPT !.pc = "cli_start_load"]]
                /\ ports' = AllocatePort(t.inst.id, t.port)
    /\ UNCHANGED <<instances, storage, procs, nextId, nextPid, requests, clock, caller>>

\* start::execute: get_instance, the status match and the boot component checks
CliStartLoad(h, boot) ==
    /\ th[h].pc = "cli_start_load"
    /\ boot \in BootChecks
    /\ th' = [th EXCEPT ![h] =
          IF GetInstance(th[h].name) = {} THEN Done(@, "NotFound")
          ELSE LET inst == CHOOSE r \in GetInstance(th[h].name) : TRUE
                   t == [th[h] EXCEPT !.inst = inst, !.prev = inst.status]
               IN  IF inst.status.tag = "Running" THEN Done(t, "Ok")
                   ELSE IF inst.status.tag = "Starting" THEN Done(t, "Conflict")
                   ELSE IF boot # "ok" THEN Done([t EXCEPT !.err = boot], "Internal")
                   ELSE [t EXCEPT !.pc = "cli_launch"]]
    /\ UNCHANGED <<instances, ports, storage, procs, nextId, nextPid, requests, clock, caller>>

\* vm_manager.launch_vm(&qemu_config)?: an error leaves the record as it is
CliLaunch(h, outcome) ==
    /\ th[h].pc = "cli_launch"
    /\ outcome \in {"ok"} \cup LaunchErrors
    /\ IF outcome \in {"ok"} \cup SpawnedAnyway
       THEN /\ nextPid <= MaxPid
            /\ procs' = procs \cup {[pid |-> nextPid, id |-> th[h].inst.id]}
            /\ nextPid' = nextPid + 1
       ELSE UNCHANGED <<procs, nextPid>>
    /\ th' = [th EXCEPT ![h] =
          IF outcome = "ok"
          THEN [@ EXCEPT !.pc = "cli_final", !.effects = @ + 1,
                         !.cmds = Append(@, "spawn"), !.pid = nextPid]
          ELSE Done([@ EXCEPT !.effects = @ + 1, !.cmds = Append(@, "spawn"),
                              !.err = outcome], "Internal")]
    /\ UNCHANGED <<instances, ports, storage, nextId, requests, clock, caller>>

\* state.vm_pid = Some(pid); update_status(Running); save_instance?
CliFinal(h) ==
    /\ th[h].pc = "cli_final"
    /\ LET inst == StartRunningState(th[h].inst, th[h].pid)
       IN  /\ instances' = SaveInstance(inst)
           /\ th' = [th EXCEPT ![h] =
                 Done([@ EXCEPT !.inst = inst],
                      IF SaveFails(inst) THEN "Database" ELSE "Ok")]
    /\ UNCHANGED <<ports, storage, procs, nextId, nextPid, requests, clock, caller>>

CliNext ==
    \/ \E h \in Threads, n \in Names, p \in PortRange \cup {NoPort},
          r \in {"ok", "no_boot_components", "bad_size"} : CreateLoad(h, n, p, r)
    \/ \E h \in Threads : CreatePort(h)
    \/ \E h \in Threads : CreateStorage(h)
    \/ \E h \in Threads : CreateSave(h)
    \/ \E h \in Threads : CliCreateReserve(h)
    \/ \E h \in Threads, b \in BootChecks : CliStartLoad(h, b)
    \/ \E h \in Threads, o \in {"ok"} \cup LaunchErrors : CliLaunch(h, o)
    \/ \E h \in Threads : CliFinal(h)
    \/ \E h \in Threads : Return(h)
    \/ \E pid \in 1..MaxPid, id \in 1..MaxId : ProcExit([pid |-> pid, id |-> id])

CliSpec == Init /\ [][CliNext]_vars

\* ------------------------------------------------------- stop requests alone
\* stop requests on the instance at rest, with the handler tasks scheduled
\* fairly: a task that can take its next step of stop_vm takes it
TermNext ==
    \/ \E h \in Threads, n \in Names : StopLoad(h, n)
    \/ \E h \in Threads : StopJournal(h)
    \/ \E h \in Threads : StopTerm(h)
    \/ \E h \in Threads : StopPoll(h)
    \/ \E h \in Threads : StopKill(h)
    \/ \E h \in Threads : StopFinal(h)
    \/ \E h \in Threads : Return(h)
    \/ \E pid \in 1..MaxPid, id \in 1..MaxId : ProcExit([pid |-> pid, id |-> id])

TermFairness ==
    \A h \in Threads : WF_vars(StopTerm(h)) /\ WF_vars(StopPoll(h)) /\ WF_vars(StopKill(h))

TermSpec == WarmInit /\ [][TermNext]_vars /\ TermFairness

\* --------------------------------------------------------- the store alone
\* create and destroy requests on two names: the instances table, the ports
\* table and the port allocator
StoreNames == {"a", "b"}

StoreNext ==
    \/ \E h \in Threads, n \in StoreNames, p \in PortRange \cup {NoPort},
          r \in {"ok", "no_boot_components", "bad_size"} : CreateLoad(h, n, p, r)
    \/ \E h \in Threads : CreatePort(h)
    \/ \E h \in Threads : CreateStorage(h)
    \/ \E h \in Threads : CreateSave(h)
    \/ \E h \in Threads : CreateReserve(h)
    \/ \E h \in Threads, n \in StoreNames : DeleteLoad(h, n)
    \/ \E h \in Threads : DeleteStorage(h)
    \/ \E h \in Threads : DeleteRow(h)
    \/ \E h \in Threads : Return(h)

StoreSpec == Init /\ [][StoreNext]_vars

\* ---------------------------------------------------------------- ManagedVm
\* ManagedVm wraps a Vm (its pid in memory) and the database: every operation
\* fetches the row by id, saves it with the new status, calls the Vm and saves
\* again.  It makes no check of the status.  Each task owns one ManagedVm of
\* the instance ManagedId; th[h].pid is the pid of its Vm.
ManagedId == 1

\* a ManagedVm has one owner: launch and stop take it by &mut
ManagedTasks == {"h1"}

ManagedOps == {"launch", "pause", "resume", "suspend", "wake", "reset", "stop"}

\* the status update_status writes before the Vm is called; wake and reset write none
ManagedIntermediateOf(op) ==
    CASE op = "launch" -> "Starting"
      [] op = "pause" -> "Pausing"
      [] op = "resume" -> "Resuming"
      [] op = "suspend" -> "Suspending"
      [] op = "stop" -> "Stopping"
      [] OTHER -> "none"

ManagedTerminalOf(op) ==
    CASE op = "pause" -> "Paused"
      [] op = "suspend" -> "Suspended"
      [] op = "stop" -> "Stopped"
      [] OTHER -> "Running"

\* the prefix of the message of mark_failed
ManagedFailureOf(op) ==
    CASE op = "launch" -> "Launch failed"
      [] op = "pause" -> "Pause failed"
      [] op = "resume" -> "Resume failed"
      [] op = "suspend" -> "Suspend failed"
      [] op = "wake" -> "Wake failed"
      [] op = "reset" -> "Reset failed"
      [] op = "stop" -> "Stop failed"

\* the QMP command of each method of Vm
VmCommandOf(op) ==
    CASE op = "pause" -> "stop"
      [] op = "resume" -> "cont"
      [] op = "suspend" -> "system_suspend"
      [] op = "wake" -> "system_wakeup"
      [] op = "reset" -> "system_reset"

\* get_state: get_instance_by_id
get_state(id) == {r \in instances : r.id = id}

\* InstanceState::update_status
update_status(inst, status) == [inst EXCEPT !.status = status]

\* a mark_failed that leaves the status as it is
mark_failed_Skip(inst, error) == inst

\* mark_failed: the status becomes Failed with the message, the pid stays
mark_failed(inst, error) == update_status(inst, Failed(error))

\* Vm::is_running of the Vm of a task
is_running(t) == t.pid # NoPid /\ Alive(t.pid)

\* the record an operation saves last: on success the terminal status (launch
\* stores the pid of the Vm, stop clears it); on an error of stop, Stopped
\* without pid when the Vm is not running; on every other error mark_failed
ManagedFinalState(t, inst) ==
    IF t.err = ""
    THEN CASE t.op = "launch" -> [update_status(inst, St("Running")) EXCEPT !.vm_pid = t.pid]
           [] t.op = "stop" -> [update_status(inst, St("Stopped")) EXCEPT !.vm_pid = NoPid]
           [] OTHER -> update_status(inst, St(ManagedTerminalOf(t.op)))
    ELSE IF t.op = "stop" /\ ~is_running(t)
         THEN [update_status(inst, St("Stopped")) EXCEPT !.vm_pid = NoPid]
         ELSE mark_failed(inst, <<ManagedFailureOf(t.op), t.err>>)

ManagedInit ==
    /\ instances = {NewInstanceState(ManagedId, "a", BasePort)}
    /\ ports = {[port |-> BasePort, instance_id |-> ManagedId, port_type |-> "rpc"]}
    /\ storage = {ManagedId}
    /\ procs = {}
    /\ nextId = ManagedId + 1
    /\ nextPid = 1
    /\ requests = 0
    /\ th = [h \in Threads |-> Idle]
    /\ clock = 0
    /\ caller = NoCaller

\* ManagedVm::from_instance: a Vm with the pid of the row
from_instance(h) ==
    /\ th[h].pc = "idle"
    /\ get_state(ManagedId) # {}
    /\ LET state == CHOOSE r \in get_state(ManagedId) : TRUE
       IN  /\ th[h].pid # state.vm_pid
           /\ th' = [th EXCEPT ![h] = [Idle EXCEPT !.pid = state.vm_pid]]
    /\ UNCHANGED <<instances, ports, storage, procs, nextId, nextPid, requests, clock, caller>>

\* a method of ManagedVm is called
ManagedCall(h, op) ==
    /\ th[h].pc = "idle"
    /\ op \in ManagedOps
    /\ requests < MaxRequests
    /\ requests' = requests + 1
    /\ th' = [th EXCEPT ![h] =
          [Idle EXCEPT !.op = op, !.name = "a", !.pid = th[h].pid,
                       !.pc = IF ManagedIntermediateOf(op) = "none" THEN "vm_cmd"
                              ELSE "managed_get"]]
    /\ UNCHANGED <<instances, ports, storage, procs, nextId, nextPid, clock, caller>>


\* get_state?: the row as it is now
ManagedGetState(h) ==
    /\ th[h].pc \in {"managed_get", "managed_get2"}
    /\ th' = [th EXCEPT ![h] =
          IF get_state(ManagedId) = {} THEN Done(@, "NotFound")
          ELSE LET state == CHOOSE r \in get_state(ManagedId) : TRUE
               IN  IF @.pc = "managed_get"
                   THEN [@ EXCEPT !.inst = state, !.prev = state.status, !.pc = "managed_save"]
                   ELSE [@ EXCEPT !.inst = state, !.pc = "managed_save2"]]
    /\ UNCHANGED <<instances, ports, storage, procs, nextId, nextPid, requests, clock, caller>>

\* update_status(<intermediate>): save_instance?
ManagedIntermediate(h) ==
    /\ th[h].pc = "managed_save"
    /\ LET inst == update_status(th[h].inst, St(ManagedIntermediateOf(th[h].op)))
       IN  /\ instances' = SaveInstance(inst)
           /\ th' = [th EXCEPT ![h] =
                 IF SaveFails(inst) THEN Done([@ EXCEPT !.inst = inst], "Database")
                 ELSE [@ EXCEPT !.inst = inst, !.journaled = TRUE,
                                !.pc = CASE th[h].op = "launch" -> "vm_launch"
                                         [] th[h].op = "stop" -> "vm_term"
                                         [] OTHER -> "vm_cmd"]]
    /\ UNCHANGED <<ports, storage, procs, nextId, nextPid, requests, clock, caller>>

\* Vm::pause, resume, suspend, wake, reset: require_pid?, connect?, the command?
VmCommand(h, outcome) ==
    /\ th[h].pc = "vm_cmd"
    /\ outcome \in (IF th[h].pid = NoPid THEN {"err"} ELSE CmdOutcomes(ManagedId))
    /\ th' = [th EXCEPT ![h] =
          IF @.pid = NoPid THEN [@ EXCEPT !.pc = "managed_get2", !.err = "VM is not running"]
          ELSE [@ EXCEPT !.pc = "managed_get2", !.effects = @ + 1,
                         !.cmds = Append(@, VmCommandOf(th[h].op)),
                         !.err = IF outcome = "ok" THEN "" ELSE "qmp"]]
    /\ UNCHANGED <<instances, ports, storage, procs, nextId, nextPid, requests, clock, caller>>

\* Vm::launch: refused when the Vm has a pid; spawn, wait, read the pid file
VmLaunch(h, outcome) ==
    /\ th[h].pc = "vm_launch"
    /\ outcome \in {"ok", "VM is already running"} \cup LaunchErrors
    /\ (outcome = "VM is already running") <=> (th[h].pid # NoPid)
    /\ IF outcome \in {"ok"} \cup SpawnedAnyway
       THEN /\ nextPid <= MaxPid
            /\ procs' = procs \cup {[pid |-> nextPid, id |-> ManagedId]}
            /\ nextPid' = nextPid + 1
       ELSE UNCHANGED <<procs, nextPid>>
    /\ th' = [th EXCEPT ![h] =
          IF outcome = "VM is already running"
          THEN [@ EXCEPT !.pc = "managed_get2", !.err = outcome]
          ELSE [@ EXCEPT !.pc = "managed_get2", !.effects = @ + 1,
                         !.cmds = Append(@, "spawn"),
                         !.pid = IF outcome = "ok" THEN nextPid ELSE NoPid,
                         !.err = IF outcome = "ok" THEN "" ELSE outcome]]
    /\ UNCHANGED <<instances, ports, storage, nextId, requests, clock, caller>>

\* Vm::stop: require_pid?, kill(pid, SIGTERM)?
VmStopTerm(h) ==
    /\ th[h].pc = "vm_term"
    /\ th' = [th EXCEPT ![h] =
          IF @.pid = NoPid THEN [@ EXCEPT !.pc = "managed_get2", !.err = "VM is not running"]
          ELSE IF Alive(@.pid)
          THEN [@ EXCEPT !.pc = "vm_poll", !.effects = @ + 1, !.cmds = Append(@, "SIGTERM")]
          ELSE [@ EXCEPT !.pc = "managed_get2", !.effects = @ + 1,
                         !.cmds = Append(@, "SIGTERM"), !.err = "SIGTERM"]]
    /\ UNCHANGED <<instances, ports, storage, procs, nextId, nextPid, requests, clock, caller>>

\* Vm::stop: one turn of the wait loop; the pid is dropped when the process is gone
VmStopPoll(h) ==
    /\ th[h].pc = "vm_poll"
    /\ th' = [th EXCEPT ![h] =
          IF ~Alive(@.pid) THEN [@ EXCEPT !.pc = "managed_get2", !.polls = 0, !.pid = NoPid]
          ELSE IF @.polls + 1 < MaxPolls THEN [@ EXCEPT !.polls = @ + 1]
          ELSE [@ EXCEPT !.pc = "vm_kill", !.polls = 0]]
    /\ UNCHANGED <<instances, ports, storage, procs, nextId, nextPid, requests, clock, caller>>

\* Vm::kill: kill(pid, SIGKILL)?, then the pid is dropped
VmKill(h) ==
    /\ th[h].pc = "vm_kill"
    /\ procs' = {p \in procs : p.pid # th[h].pid}
    /\ th' = [th EXCEPT ![h] =
          IF Alive(@.pid)
          THEN [@ EXCEPT !.pc = "managed_get2", !.effects = @ + 1,
                         !.cmds = Append(@, "SIGKILL"), !.pid = NoPid]
          ELSE [@ EXCEPT !.pc = "managed_get2", !.effects = @ + 1,
                         !.cmds = Append(@, "SIGKILL"), !.err = "SIGKILL"]]
    /\ UNCHANGED <<instances, ports, storage, nextId, nextPid, requests, clock, caller>>

\* the last save of the operation, and its result
ManagedFinal(h) ==
    /\ th[h].pc = "managed_save2"
    /\ LET t == th[h]
           inst == ManagedFinalState(t, t.inst)
       IN  /\ instances' = SaveInstance(inst)
           /\ th' = [th EXCEPT ![h] =
                 Done([t EXCEPT !.inst = inst],
                      IF t.err # "" THEN "Err"
                      ELSE IF SaveFails(inst) THEN "Database" ELSE "Ok")]
    /\ UNCHANGED <<ports, storage, procs, nextId, nextPid, requests, clock, caller>>

\* the method has returned; the ManagedVm and the pid of its Vm stay
ManagedReturn(h) ==
    /\ th[h].pc = "done"
    /\ th' = [th EXCEPT ![h] = [Idle EXCEPT !.pid = th[h].pid]]
    /\ UNCHANGED <<instances, ports, storage, procs, nextId, nextPid, requests, clock, caller>>

\* Drop for Vm: the handle goes away, the process keeps running
ManagedDrop(h) ==
    /\ th[h].pc = "idle"
    /\ th[h].pid # NoPid
    /\ th' = [th EXCEPT ![h] = Idle]
    /\ UNCHANGED <<instances, ports, storage, procs, nextId, nextPid, requests, clock, caller>>

ManagedNext ==
    \/ \E h \in ManagedTasks : from_instance(h)
    \/ \E h \in ManagedTasks : ManagedDrop(h)
    \/ \E h \in ManagedTasks, op \in ManagedOps : ManagedCall(h, op)
    \/ \E h \in ManagedTasks : ManagedGetState(h)
    \/ \E h \in ManagedTasks : ManagedIntermediate(h)
    \/ \E h \in ManagedTasks, o \in Outcomes : VmCommand(h, o)
    \/ \E h \in ManagedTasks, o \in {"ok", "VM is already running"} \cup LaunchErrors : VmLaunch(h, o)
    \/ \E h \in ManagedTasks : VmStopTerm(h)
    \/ \E h \in ManagedTasks : VmStopPoll(h)
    \/ \E h \in ManagedTasks : VmKill(h)
    \/ \E h \in ManagedTasks : ManagedFinal(h)
    \/ \E h \in ManagedTasks : ManagedReturn(h)
    \/ \E pid \in 1..MaxPid, id \in 1..MaxId : ProcExit([pid |-> pid, id |-> id])

ManagedSpec == ManagedInit /\ [][ManagedNext]_vars

\* ------------------------------------------ the state database, column by column
\* One caller of StateDatabase builds a record, changes it, saves it, reads it
\* back and deletes it while the wall clock advances.  A path is a sequence of
\* components; "raw_ff" is a component with a byte that is not UTF-8.  An
\* Option is a sequence of length 0 or 1.
DbNames == {"a"}
BaseDirs == {<<"var", "lib">>, <<"var", "raw_ff">>}
DbStatuses == {St("Running"), St("Stopped"), Failed("launch failed")}

IsUtf8(path) == \A i \in DOMAIN path : path[i] # "raw_ff"
\* Path::to_string_lossy: every invalid byte sequence becomes U+FFFD
to_string_lossy(path) ==
    [i \in DOMAIN path |-> IF path[i] = "raw_ff" THEN "U+FFFD" ELSE path[i]]
\* PathBuf::from(String): the bytes of the string
PathBuf_from(str) == str

\* InstanceStorage::get_paths: every file of an instance is under base_dir/id
get_paths(base, id) ==
    [instance_dir |-> Append(base, ToString(id)),
     disk_image |-> base \o <<ToString(id), "katana-data.qcow2">>,
     serial_log |-> base \o <<ToString(id), "serial.log">>,
     qmp_socket |-> base \o <<ToString(id), "qmp.sock">>]

\* an encoding that keeps only the name of the variant
status_to_string_NameOnly(status) == <<status.tag>>

\* serde_json of InstanceStatus: a unit variant is its name, Failed carries its error
status_to_string(status) ==
    IF status.tag = "Failed" THEN <<"Failed", "error", status.error>> ELSE <<status.tag>>
status_from_str(str) == IF Len(str) = 3 THEN Failed(str[3]) ELSE St(str[1])

\* serde_json of InstanceConfig: a path serializes only when it is UTF-8
config_serializes(config) == IsUtf8(config.data_dir) /\ IsUtf8(config.disk_image)
config_to_string(config) ==
    <<"rpc_port", config.rpc_port, "data_dir", config.data_dir,
      "disk_image", config.disk_image>>
config_from_str(str) == [rpc_port |-> str[2], data_dir |-> str[4], disk_image |-> str[6]]

\* InstanceState::new: Created, no pid, no paths, both stamps now
InstanceState_new(id, name, config, now) ==
    [id |-> id, name |-> name, status |-> St("Created"), config |-> config,
     vm_pid |-> NoPid, qmp_socket |-> <<>>, serial_log |-> <<>>,
     created_at |-> now, updated_at |-> now]

\* InstanceState::update_status: the status and a new updated_at
InstanceState_update_status(state, status, now) ==
    [state EXCEPT !.status = status, !.updated_at = now]

\* the columns save_instance binds
RowOf(state) ==
    [id |-> state.id, name |-> state.name,
     status |-> status_to_string(state.status),
     config_json |-> config_to_string(state.config),
     vm_pid |-> state.vm_pid,
     qmp_socket |-> [i \in DOMAIN state.qmp_socket |-> to_string_lossy(state.qmp_socket[i])],
     serial_log |-> [i \in DOMAIN state.serial_log |-> to_string_lossy(state.serial_log[i])],
     created_at |-> state.created_at, updated_at |-> state.updated_at]

\* the record get_instance builds from a row
StateOf(row) ==
    [id |-> row.id, name |-> row.name,
     status |-> status_from_str(row.status),
     config |-> config_from_str(row.config_json),
     vm_pid |-> row.vm_pid,
     qmp_socket |-> [i \in DOMAIN row.qmp_socket |-> PathBuf_from(row.qmp_socket[i])],
     serial_log |-> [i \in DOMAIN row.serial_log |-> PathBuf_from(row.serial_log[i])],
     created_at |-> row.created_at, updated_at |-> row.updated_at]

\* save_instance fails when the config does not serialize or the name is
\* taken by a row of another id
save_instance_fails(state) ==
    \/ ~config_serializes(state.config)
    \/ \E r \in instances : r.name = state.name /\ r.id # state.id

\* the error of save_instance: `?` turns a serde_json error into Serialization
\* and every rusqlite error, the constraint violation included, into Database
save_instance_error(state) ==
    IF ~config_serializes(state.config) THEN "Serialization"
    ELSE IF \E r \in instances : r.name = state.name /\ r.id # state.id THEN "Database"
    ELSE "Ok"

\* QueryReturnedNoRows, or no row affected, becomes InstanceNotFound
missing_key_error(found) == IF found = {} THEN "InstanceNotFound" ELSE "Ok"

\* save_instance: UPDATE every column but created_at and stamp updated_at
\* when a row has the id, INSERT the record with its own stamps otherwise
save_instance(state, now) ==
    IF save_instance_fails(state) THEN instances
    ELSE IF \E r \in instances : r.id = state.id
    THEN {IF r.id = state.id
          THEN [RowOf(state) EXCEPT !.created_at = r.created_at, !.updated_at = now]
          ELSE r : r \in instances}
    ELSE instances \cup {RowOf(state)}

\* get_instance and get_instance_by_id: the records of the matching rows
get_instance(name) == {StateOf(r) : r \in {q \in instances : q.name = name}}
get_instance_by_id(id) == {StateOf(r) : r \in {q \in instances : q.id = id}}

Held == caller.state[1]
AsOption(set) == IF set = {} THEN <<>> ELSE <<CHOOSE x \in set : TRUE>>

\* create: a new record with the paths of its storage directory
DbNew(name, base) ==
    /\ nextId <= MaxId
    /\ nextId' = nextId + 1
    /\ LET paths == get_paths(base, nextId)
           config == [rpc_port |-> BasePort, data_dir |-> paths.instance_dir,
                      disk_image |-> paths.disk_image]
           state == [InstanceState_new(nextId, name, config, clock) EXCEPT
                        !.serial_log = <<paths.serial_log>>,
                        !.qmp_socket = <<paths.qmp_socket>>]
       IN  caller' = [pc |-> "held", state |-> <<state>>, got |-> <<>>, result |-> ""]
    /\ UNCHANGED <<instances, ports, storage, procs, nextPid, requests, th, clock>>

\* state.update_status(status)
DbUpdateStatus(status) ==
    /\ caller.state # <<>>
    /\ caller' = [pc |-> "held", got |-> <<>>, result |-> "",
                  state |-> <<InstanceState_update_status(Held, status, clock)>>]
    /\ UNCHANGED <<instances, ports, storage, procs, nextId, nextPid, requests, th, clock>>

\* the handlers assign the status and the pid without stamping the record
DbAssign(status, pid) ==
    /\ caller.state # <<>>
    /\ caller' = [pc |-> "held", got |-> <<>>, result |-> "",
                  state |-> <<[Held EXCEPT !.status = status, !.vm_pid = pid]>>]
    /\ UNCHANGED <<instances, ports, storage, procs, nextId, nextPid, requests, th, clock>>

\* db.save_instance(&state)
DbSave ==
    /\ caller.state # <<>>
    /\ instances' = save_instance(Held, clock)
    /\ caller' = [caller EXCEPT !.got = <<>>,
                     !.pc = IF save_instance_fails(Held) THEN "save_failed" ELSE "saved",
                     !.result = save_instance_error(Held)]
    /\ UNCHANGED <<ports, storage, procs, nextId, nextPid, requests, th, clock>>

\* db.get_instance(&state.name)
DbGetByName ==
    /\ caller.state # <<>>
    /\ caller' = [caller EXCEPT !.got = AsOption(get_instance(Held.name)),
                     !.pc = IF caller.pc = "saved" THEN "saved_got" ELSE "got",
                     !.result = missing_key_error(get_instance(Held.name))]
    /\ UNCHANGED <<instances, ports, storage, procs, nextId, nextPid, requests, th, clock>>

\* db.get_instance_by_id(&state.id)
DbGetById ==
    /\ caller.state # <<>>
    /\ caller' = [caller EXCEPT !.got = AsOption(get_instance_by_id(Held.id)),
                     !.pc = IF caller.pc = "saved" THEN "saved_got" ELSE "got",
                     !.result = missing_key_error(get_instance_by_id(Held.id))]
    /\ UNCHANGED <<instances, ports, storage, procs, nextId, nextPid, requests, th, clock>>

\* let mut state = db.get_instance(name)?: the caller goes on with what it read
DbAdopt ==
    /\ caller.got # <<>>
    /\ caller' = [pc |-> "held", state |-> caller.got, got |-> <<>>, result |-> ""]
    /\ UNCHANGED <<instances, ports, storage, procs, nextId, nextPid, requests, th, clock>>

\* db.delete_instance(&state.name)
DbDelete ==
    /\ caller.state # <<>>
    /\ instances' = {r \in instances : r.name # Held.name}
    /\ caller' = [caller EXCEPT !.pc = "deleted", !.got = <<>>,
                     !.result = missing_key_error(get_instance(Held.name))]
    /\ UNCHANGED <<ports, storage, procs, nextId, nextPid, requests, th, clock>>

\* a second of wall-clock time passes
DbTick ==
    /\ clock < MaxClock
    /\ clock' = clock + 1
    /\ UNCHANGED <<instances, ports, storage, procs, nextId, nextPid, requests, th, caller>>

DbNext ==
    \/ \E n \in DbNames, b \in BaseDirs : DbNew(n, b)
    \/ \E s \in DbStatuses : DbUpdateStatus(s)
    \/ \E s \in DbStatuses, p \in {NoPid, 1} : DbAssign(s, p)
    \/ DbSave
    \/ DbGetByName
    \/ DbGetById
    \/ DbAdopt
    \/ DbDelete
    \/ DbTick

DbSpec == Init /\ [][DbNext]_vars

\* ================================================================== claims
LifecycleOps == {"start", "stop", "pause", "resume", "suspend", "reset"}
ActiveTags == {"Starting", "Running", "Pausing", "Paused", "Resuming", "Suspending",
               "Suspended", "Stopping"}
IntermediateTags == {"Starting", "Stopping", "Pausing", "Resuming", "Suspending"}

\* the permitted transitions of the status model
TransitionTable ==
    {<<"Created", "Starting">>,
     <<"Starting", "Running">>, <<"Starting", "Failed">>,
     <<"Running", "Pausing">>, <<"Running", "Suspending">>, <<"Running", "Stopping">>,
     <<"Running", "Starting">>,
     <<"Pausing", "Paused">>, <<"Pausing", "Failed">>,
     <<"Paused", "Resuming">>, <<"Paused", "Suspending">>, <<"Paused", "Stopping">>,
     <<"Paused", "Starting">>,
     <<"Resuming", "Running">>, <<"Resuming", "Failed">>,
     <<"Suspending", "Suspended">>, <<"Suspending", "Failed">>,
     <<"Suspended", "Resuming">>, <<"Suspended", "Stopping">>,
     <<"Stopping", "Stopped">>, <<"Stopping", "Failed">>,
     <<"Stopped", "Starting">>}

\* no other request on the instance of h is being handled
Alone(h) == \A g \in Threads \ {h} : ~(InFlight(g) /\ th[g].name = th[h].name)

\* C1 (as stated): in every persisted record the pid is present if and only if
\* the status is Starting, Running, Pausing, Paused, Resuming, Suspending,
\* Suspended or Stopping.
C1_PidIffActive ==
    \A r \in instances : (r.vm_pid # NoPid) <=> (r.status.tag \in ActiveTags)

\* C1 (amended): in every persisted record the pid is present when the status is
\* Running, Pausing, Paused, Resuming, Suspending, Suspended or Stopping and
\* absent when it is Created or Stopped; Starting and Failed carry either.
C1_PidMatchesStatus ==
    \A r \in instances :
        /\ r.status.tag \in ActiveTags \ {"Starting"} => r.vm_pid # NoPid
        /\ r.status.tag \in {"Created", "Stopped"} => r.vm_pid = NoPid

\* a stop has returned and left a Stopped record without pid behind
C1_Witness ==
    \E h \in Threads, r \in instances :
        /\ th[h].pc = "done" /\ th[h].op = "stop" /\ th[h].result = "Ok"
        /\ th[h].prev.tag = "Running"
        /\ r.id = th[h].inst.id /\ r.status.tag = "Stopped" /\ r.vm_pid = NoPid

\* C2: every change of the persisted status of a record made by a handler is a
\* source -> destination pair of the transition table.
C2_TransitionsInTable ==
    [][\A r \in instances, q \in instances' :
          (r.id = q.id /\ r.status # q.status) =>
              <<r.status.tag, q.status.tag>> \in TransitionTable]_vars

\* C3: requests on the same instance are totally ordered: no two handlers are
\* at once between the read for their precondition check and their final write.
C3_Serialized ==
    \A g, h \in Threads :
        (g # h /\ InFlight(g) /\ InFlight(h)
              /\ th[g].op \in LifecycleOps /\ th[h].op \in LifecycleOps)
            => th[g].name # th[h].name

\* C4: a start request on a status other than Created and Stopped has returned
\* at once, without a save and without a spawn: success on Running, Conflict on
\* Starting, the invalid-transition error on every other status.
C4_StartRejected ==
    \A h \in Threads :
        (th[h].op = "start" /\ th[h].prev.tag \in StatusTags \ {"Created", "Stopped"}) =>
            /\ th[h].pc = "done"
            /\ th[h].effects = 0
            /\ ~th[h].journaled
            /\ th[h].inst.status = th[h].prev
            /\ th[h].result = CASE th[h].prev.tag = "Running" -> "Ok"
                                 [] th[h].prev.tag = "Starting" -> "Conflict"
                                 [] OTHER -> "BadRequest"

\* C5: Failed is terminal: a record in Failed keeps its status and its pid until
\* it is deleted, and a handler that found the record in Failed issues no spawn,
\* signal or control-socket command.
C5_FailedTerminal ==
    [][/\ \A r \in instances, q \in instances' :
             (r.status.tag = "Failed" /\ r.id = q.id) =>
                 (q.status = r.status /\ q.vm_pid = r.vm_pid)
       /\ \A h \in Threads :
             th[h].prev.tag = "Failed" => th'[h].effects <= th[h].effects]_vars

C7_JournalBeforeEffect ==
    \A h \in Threads : th[h].effects > 0 => th[h].journaled

\* C8: a start on Created or Stopped whose launch succeeded has saved Starting
\* and returns success with the record Running under the pid of the pid file.
C8_StartEndsRunning ==
    [][\A h \in Threads :
          (/\ th[h].pc = "start_final" /\ th'[h].pc = "done"
           /\ th[h].prev.tag \in {"Created", "Stopped"}
           /\ th[h].err = "") =>
              /\ th[h].journaled
              /\ th'[h].result = "Ok"
              /\ th'[h].inst.status = St("Running")
              /\ \E r \in instances' :
                    /\ r.id = th[h].inst.id
                    /\ r.status = St("Running")
                    /\ r.vm_pid = th[h].pid /\ r.vm_pid # NoPid]_vars

\* C9: a stop on Running whose process took the graceful signal, and is gone
\* when stop_vm is over, has saved Stopping and returns success with the record
\* Stopped and the pid absent.
C9_StopEndsStopped ==
    [][\A h \in Threads :
          (/\ th[h].pc = "stop_final" /\ th'[h].pc = "done"
           /\ th[h].prev.tag = "Running"
           /\ th[h].err # "SIGTERM"
           /\ ~Alive(th[h].pid)) =>
              /\ th[h].journaled
              /\ th'[h].result = "Ok"
              /\ \A r \in instances' :
                    r.id = th[h].inst.id => (r.status = St("Stopped") /\ r.vm_pid = NoPid)]_vars

\* C10: a start whose launch failed returns an error and leaves the record
\* Failed with the error string and without pid.
C10_LaunchFailureMarksFailed ==
    [][\A h \in Threads :
          (th[h].pc = "start_final" /\ th'[h].pc = "done" /\ th[h].err # "") =>
              /\ th'[h].result = "Internal"
              /\ \A r \in instances' :
                    r.id = th[h].inst.id =>
                        /\ r.status = Failed(<<"Failed to launch VM", th[h].err>>)
                        /\ r.vm_pid = NoPid]_vars

\* the result kinds that are errors
ErrorResults == {"NotFound", "Conflict", "BadRequest", "Internal", "Database"}

\* C11: a start on a record whose kernel does not exist returns an error, spawns
\* no process and leaves the record Failed, the reason containing the
\* missing-path message, without pid.
C11_MissingKernelMarksFailed ==
    [][\A h \in Threads :
          (th[h].pc = "idle" /\ th'[h].op = "start" /\ th'[h].err = "Kernel not found") =>
              /\ th'[h].pc = "done"
              /\ th'[h].result \in ErrorResults
              /\ procs' = procs
              /\ \E r \in instances' :
                    /\ r.id = th'[h].inst.id
                    /\ r.status.tag = "Failed"
                    /\ \E i \in DOMAIN r.status.error : r.status.error[i] = "Kernel not found"
                    /\ r.vm_pid = NoPid]_vars

\* C12: a stop whose terminate step failed (a signal could not be delivered)
\* while the process is in fact gone reports success and leaves the record
\* Stopped without pid.
C12_StopSucceedsWhenProcessGone ==
    [][\A h \in Threads :
          (/\ th[h].pc = "stop_final" /\ th'[h].pc = "done"
           /\ th[h].err \in {"SIGTERM", "SIGKILL"}
           /\ ~Alive(th[h].pid)) =>
              /\ th'[h].result = "Ok"
              /\ \A r \in instances' :
                    r.id = th[h].inst.id => (r.status = St("Stopped") /\ r.vm_pid = NoPid)]_vars

\* C13: when the control-socket command of a pause, resume, suspend or reset
\* request has failed, the request returns an error and the record is back at
\* the status it held before the intermediate status was written, its pid
\* unchanged.
C13_CommandFailureRewinds ==
    [][\A h \in Threads :
          (/\ th[h].pc \in {"pause_final", "resume_final", "suspend_final",
                            "reset_final", "reset_rewind"}
           /\ th'[h].pc = "done"
           /\ th[h].err = "qmp") =>
              /\ th'[h].result \in ErrorResults
              /\ \E q \in instances' :
                    /\ q.id = th[h].inst.id
                    /\ q.status = th[h].prev
                    /\ \A r \in instances : r.id = q.id => q.vm_pid = r.vm_pid]_vars

ControlOps == {"pause", "resume", "suspend", "wake", "reset"}

\* C14: when the control-socket command of ManagedVm pause, resume, suspend,
\* wake or reset has failed, the operation returns the error and the record is
\* saved Failed with the error string.
C14_ManagedFailureMarksFailed ==
    [][\A h \in ManagedTasks :
          (/\ th[h].pc = "managed_save2" /\ th'[h].pc = "done"
           /\ th[h].op \in ControlOps
           /\ th[h].err = "qmp") =>
              /\ th'[h].result = "Err"
              /\ \E q \in instances' :
                    /\ q.id = ManagedId
                    /\ q.status = Failed(<<ManagedFailureOf(th[h].op), "qmp">>)]_vars

\* a ManagedVm pause has sent its command, the command failed, the error is
\* returned and the record is Failed
C14_Witness ==
    \E h \in ManagedTasks, q \in instances :
        /\ th[h].pc = "done" /\ th[h].op = "pause" /\ th[h].result = "Err"
        /\ th[h].cmds = <<"stop">> /\ th[h].err = "qmp"
        /\ q.id = ManagedId /\ q.status = Failed(<<"Pause failed", "qmp">>)

\* each operation with the status it ends at
TerminalOf ==
    {<<"start", "Running">>, <<"resume", "Running">>, <<"pause", "Paused">>,
     <<"suspend", "Suspended">>, <<"stop", "Stopped">>}

\* C15: an operation on a record already in the terminal status of that
\* operation returns success at once: nothing is written to the store and no
\* spawn, signal or control-socket command is issued.
C15_IdempotentOnTerminal ==
    [][\A h \in Threads :
          (th[h].pc = "idle" /\ <<th'[h].op, th'[h].prev.tag>> \in TerminalOf) =>
              /\ th'[h].pc = "done"
              /\ th'[h].result = "Ok"
              /\ th'[h].cmds = <<>> /\ th'[h].effects = 0
              /\ UNCHANGED <<instances, ports, storage, procs>>]_vars

\* a pause on a Paused record has returned success and has done nothing
C15_Witness ==
    \E h \in Threads, r \in instances :
        /\ th[h].pc = "done" /\ th[h].op = "pause" /\ th[h].prev.tag = "Paused"
        /\ th[h].result = "Ok" /\ th[h].cmds = <<>> /\ ~th[h].journaled
        /\ r.id = th[h].inst.id /\ r.status.tag = "Paused"

\* each operation with its own intermediate status
IntermediateOf ==
    {<<"start", "Starting">>, <<"reset", "Starting">>, <<"stop", "Stopping">>,
     <<"pause", "Pausing">>, <<"resume", "Resuming">>, <<"suspend", "Suspending">>}

\* C16: an operation on a record in the intermediate status of that operation
\* fails with Conflict, leaves the record as it is and issues no effect.
C16_ConflictOnIntermediate ==
    [][\A h \in Threads :
          (th[h].pc = "idle" /\ <<th'[h].op, th'[h].prev.tag>> \in IntermediateOf) =>
              /\ th'[h].pc = "done"
              /\ th'[h].result = "Conflict"
              /\ th'[h].cmds = <<>> /\ th'[h].effects = 0
              /\ UNCHANGED <<instances, ports, storage, procs>>]_vars

\* the statuses each operation is permitted on
Permitted ==
    {<<"stop", "Running">>, <<"stop", "Paused">>, <<"stop", "Suspended">>,
     <<"pause", "Running">>,
     <<"resume", "Paused">>, <<"resume", "Suspended">>,
     <<"suspend", "Running">>, <<"suspend", "Paused">>,
     <<"reset", "Running">>, <<"reset", "Paused">>}

\* C17: a stop, pause, resume, suspend or reset on a status that is neither
\* permitted for the operation nor its terminal nor its intermediate status
\* fails with the invalid-transition error, leaves the record as it is and
\* sends no signal or command.
C17_InvalidTransitionRejected ==
    [][\A h \in Threads :
          (/\ th[h].pc = "idle"
           /\ th'[h].op \in {"stop", "pause", "resume", "suspend", "reset"}
           /\ th'[h].prev.tag \in StatusTags
           /\ <<th'[h].op, th'[h].prev.tag>> \notin Permitted \cup TerminalOf \cup IntermediateOf) =>
              /\ th'[h].pc = "done"
              /\ th'[h].result = "BadRequest"
              /\ th'[h].cmds = <<>> /\ th'[h].effects = 0
              /\ UNCHANGED <<instances, ports, storage, procs>>]_vars

\* the command that makes a stopped or sleeping guest responsive again
WakeCommandOf(tag) == IF tag = "Paused" THEN "cont" ELSE "system_wakeup"

\* C18: a stop on a Paused record has sent continue, and a stop on a Suspended
\* record wake-system, before it sends the graceful-termination signal.
C18_StopWakesFirst ==
    \A h \in Threads :
        (th[h].op = "stop" /\ th[h].prev.tag \in {"Paused", "Suspended"}) =>
            \A i \in DOMAIN th[h].cmds :
                th[h].cmds[i] = "SIGTERM" =>
                    \E j \in 1..(i - 1) : th[h].cmds[j] = WakeCommandOf(th[h].prev.tag)

\* C19: a suspend on a Paused record sends continue and then suspend-system, and
\* when both are acknowledged it returns success with the record Suspended and
\* the pid unchanged.
C19_SuspendFromPaused ==
    [][\A h \in Threads :
          (/\ th[h].pc = "suspend_final" /\ th'[h].pc = "done"
           /\ th[h].prev.tag = "Paused"
           /\ th[h].err = "") =>
              /\ th[h].cmds = <<"cont", "system_suspend">>
              /\ th'[h].result = "Ok"
              /\ \E q \in instances' :
                    /\ q.id = th[h].inst.id
                    /\ q.status = St("Suspended")
                    /\ \A r \in instances : r.id = q.id => q.vm_pid = r.vm_pid]_vars

\* C20: a reset on Running or Paused whose commands succeeded returns success
\* with the record Running under the pid it had; no step of a reset spawns or
\* signals a process or changes the pid of the record.
C20_ResetKeepsPid ==
    [][\A h \in Threads :
          (th[h].op = "reset" /\ th'[h].op = "reset" /\ th'[h] # th[h]) =>
              /\ procs' = procs
              /\ \A i \in DOMAIN th'[h].cmds : th'[h].cmds[i] \in {"cont", "system_reset"}
              /\ \A r \in instances, q \in instances' : r.id = q.id => q.vm_pid = r.vm_pid
              /\ (th[h].pc = "reset_final" /\ th[h].err = "") =>
                    /\ th'[h].result = "Ok"
                    /\ \E q \in instances' :
                          /\ q.id = th[h].inst.id
                          /\ q.status = St("Running")
                          /\ q.vm_pid # NoPid]_vars

\* C21: a resume sends exactly one command, continue when the record was Paused
\* and wake-system when it was Suspended; when it is acknowledged the request
\* has saved Resuming and returns success with the record Running.
C21_ResumeCommand ==
    [][\A h \in Threads :
          (th[h].pc = "resume_final" /\ th'[h].pc = "done" /\ th[h].err = "") =>
              /\ th[h].prev.tag \in {"Paused", "Suspended"}
              /\ th[h].cmds = <<WakeCommandOf(th[h].prev.tag)>>
              /\ th[h].journaled
              /\ th'[h].result = "Ok"
              /\ \E q \in instances' : q.id = th[h].inst.id /\ q.status = St("Running")]_vars

\* C22 (as stated): a create for a name that exists fails with the
\* already-exists error and leaves the instances and the ports as they are.
C22_CreateExistingRejected ==
    [][\A h \in Threads :
          (/\ th[h].pc = "idle" /\ th'[h].op = "create"
           /\ \E r \in instances : r.name = th'[h].name) =>
              /\ th'[h].pc = "done"
              /\ th'[h].result = "Conflict"
              /\ UNCHANGED <<instances, ports>>]_vars

\* C22 (amended): a create for a name that exists fails and leaves the
\* instances and the ports as they are; the error is the already-exists error
\* when the boot components load, and their load error otherwise.
C22_CreateExistingFails ==
    [][\A h \in Threads :
          (/\ th[h].pc = "idle" /\ th'[h].op = "create"
           /\ \E r \in instances : r.name = th'[h].name) =>
              /\ th'[h].pc = "done"
              /\ th'[h].result =
                    IF th'[h].err = "no_boot_components" THEN "Internal" ELSE "Conflict"
              /\ UNCHANGED <<instances, ports>>]_vars

\* a create for a name that exists has been refused; the record and its port are there
C22_Witness ==
    \E h \in Threads, r \in instances, p \in ports :
        /\ th[h].pc = "done" /\ th[h].op = "create" /\ th[h].result = "Conflict"
        /\ r.name = th[h].name /\ p.instance_id = r.id /\ p.port = r.rpc_port

\* C23: no two rows of the instances table have the same name, and no two the
\* same id.
C23_UniqueNameAndId ==
    \A r, q \in instances : (r.name = q.name \/ r.id = q.id) => r = q

\* a save of a second record under a name that is taken has been refused
C23_Witness ==
    \E h \in Threads, r \in instances :
        /\ th[h].pc = "done" /\ th[h].result = "Database"
        /\ th[h].inst.name = r.name /\ th[h].inst.id # r.id
        /\ \A q \in instances : q.id # th[h].inst.id

\* C24: every row of the ports table references a row of the instances table: a
\* reservation for an id without row is refused and the ports of a row go with
\* it in the step that deletes it.
C24_PortsReferenceInstances ==
    \A p \in ports : \E r \in instances : r.id = p.instance_id

\* a create has reserved the port of its row, a destroy has then deleted the
\* row, and the port is gone with it
C24_Witness ==
    \E g, h \in Threads :
        /\ th[g].pc = "done" /\ th[g].op = "create" /\ th[g].result = "Ok"
        /\ th[h].pc = "done" /\ th[h].op = "delete" /\ th[h].result = "Ok"
        /\ th[h].inst.id = th[g].inst.id
        /\ \A r \in instances : r.id # th[h].inst.id
        /\ \A p \in ports : p.instance_id # th[h].inst.id

\* C25: a create that succeeds leaves the tuple (rpc_port, id, rpc) in the ports
\* table; no step removes or changes a tuple except the step that deletes the
\* row it references, and no step of a start, stop, pause, resume, suspend or
\* reset touches the ports table or the rpc_port of a row.
C25_PortKeptUntilDestroy ==
    [][/\ \A h \in Threads :
             (th[h].pc = "create_reserve" /\ th'[h].pc = "done" /\ th'[h].result = "Ok") =>
                 [port |-> th[h].port, instance_id |-> th[h].inst.id, port_type |-> "rpc"]
                     \in ports'
       /\ \A p \in ports \ ports' :
             /\ \E r \in instances : r.id = p.instance_id
             /\ \A r \in instances' : r.id # p.instance_id
       /\ \A h \in Threads :
             (th[h].op \in LifecycleOps /\ th'[h] # th[h]) =>
                 /\ ports' = ports
                 /\ \A r \in instances, q \in instances' :
                       r.id = q.id => q.rpc_port = r.rpc_port]_vars

\* a stop has run to its end on a created instance and its port tuple is there
C25_Witness ==
    \E h \in Threads, r \in instances :
        /\ th[h].pc = "done" /\ th[h].op = "stop" /\ th[h].result = "Ok"
        /\ th[h].journaled
        /\ r.id = th[h].inst.id
        /\ [port |-> r.rpc_port, instance_id |-> r.id, port_type |-> "rpc"] \in ports

C28_SaveIncreasesUpdatedAt ==
    [][/\ \A r \in instances' : r.updated_at >= r.created_at
       /\ (caller'.pc = "saved" /\ (caller.pc # "saved" \/ instances' # instances)) =>
             \A r \in instances, q \in instances' :
                 (r.id = q.id /\ r.id = Held.id) =>
                     q.updated_at > r.updated_at /\ q.created_at = r.created_at]_vars

\* C29: a destroy never removes a row whose status is Running or Starting when
\* it is removed, whatever other requests run on the same GVM; a destroy that
\* finds the status Running or Starting fails and leaves the row, its storage
\* and its ports as they are.
C29_DestroyKeepsRunning ==
    [][\A h \in Threads :
          /\ (th[h].pc = "delete_row" /\ th'[h].pc = "done") =>
                \A r \in instances \ instances' : r.status.tag \notin {"Running", "Starting"}
          /\ (/\ th[h].pc = "idle" /\ th'[h].op = "delete"
              /\ \E r \in instances : r.name = th'[h].name /\ r.status.tag \in {"Running", "Starting"}) =>
                /\ th'[h].pc = "done" /\ th'[h].result = "BadRequest"
                /\ UNCHANGED <<instances, storage, ports>>]_vars

\* C30: stop_vm returns success exactly when the process is no longer alive
\* as it returns: never success while the process exists, never an error
\* when the process is gone.
C30_StopVmSucceedsIffGone ==
    [][\A h \in Threads :
          (th[h].pc \in {"stop_term", "stop_poll", "stop_kill"} /\ th'[h].pc = "stop_final") =>
              (th'[h].err = "" <=> \A p \in procs' : p.pid # th[h].pid)]_vars

C32_CreateLeavesCreated ==
    [][/\ \A h \in Threads :
             /\ (th[h].op = "create" /\ th'[h] # th[h]) => procs' = procs
             /\ (th[h].pc = "create_save" /\ th'[h].pc # "done" /\ th'[h] # th[h]) =>
                   /\ \A r \in instances : r.id # th[h].inst.id
                   /\ \E r \in instances' :
                         /\ r.id = th[h].inst.id /\ r.name = th[h].name
                         /\ r.status = St("Created") /\ r.vm_pid = NoPid
                         /\ r.rpc_port = th[h].port
             /\ (th[h].op = "create" /\ th'[h].pc = "done" /\ th'[h].result = "Ok"
                 /\ th[h].pc # "done") =>
                   [port |-> th[h].port, instance_id |-> th[h].inst.id,
                    port_type |-> "rpc"] \in ports'
       /\ \A r \in instances, q \in instances' :
             (r.id = q.id /\ r.status = St("Created") /\ q.status # St("Created")) =>
                 \E h \in Threads : th[h].op = "start" /\ th'[h] # th[h]]_vars

\* C33: a save refused for a name that is taken reports the already-exists
\* error, a get or delete of a missing key reports the not-found error, both
\* distinct from the generic database error; a failed save or delete leaves
\* the rows as they are.
C33_TypedStoreErrors ==
    [][/\ (caller'.pc = "save_failed" /\ caller' # caller) =>
             /\ instances' = instances
             /\ (\E r \in instances : r.name = Held.name /\ r.id # Held.id) =>
                    caller'.result = "InstanceAlreadyExists"
       /\ (caller'.pc \in {"got", "saved_got"} /\ caller' # caller /\ caller'.got = <<>>) =>
             caller'.result = "InstanceNotFound"
       /\ (caller'.pc = "deleted" /\ caller' # caller /\ caller'.result # "Ok") =>
             instances' = instances /\ caller'.result = "InstanceNotFound"]_vars

\* C34: attaching to a record with a pid verifies that the process is the
\* hypervisor of that record and that its control socket answers; when it is
\* not, no pid is adopted and the record is marked Failed; when it is, the
\* row stays as it is.
C34_AttachVerifies ==
    [][\A h \in ManagedTasks :
          (th[h].pc = "idle" /\ th[h].pid = NoPid /\ th'[h].pc = "idle" /\ th'[h] # th[h]) =>
              \A r \in get_state(ManagedId) :
                  r.vm_pid # NoPid =>
                      IF [pid |-> r.vm_pid, id |-> r.id] \in procs
                      THEN instances' = instances /\ th'[h].pid = r.vm_pid
                      ELSE /\ th'[h].pid = NoPid
                           /\ \A q \in instances' : q.id = r.id => q.status.tag = "Failed"]_vars

\* C35: a step of a start, stop, pause, resume, suspend or reset request
\* changes no port tuple and, of the rows, only the status and the pid of the
\* row it works on: that row was there before with the same id, name and
\* config, no row appears and no row goes away.
C35_LifecycleFrame ==
    [][\A h \in Threads :
          (th[h].op \in LifecycleOps /\ th'[h] # th[h]) =>
              /\ ports' = ports
              /\ \A n \in instances' \ instances :
                    /\ n.id = th[h].inst.id
                    /\ \E r \in instances :
                          r.id = n.id /\ r.name = n.name /\ r.rpc_port = n.rpc_port
              /\ \A r \in instances \ instances' :
                    /\ r.id = th[h].inst.id
                    /\ \E n \in instances' : n.id = r.id]_vars

\* C36: of the hypervisor processes launched for one GVM at most one is alive.
C36_OneProcessPerGvm ==
    \A p \in procs : \A q \in procs : p.id = q.id => p = q

\* C37: when no request is in flight, every live hypervisor process belongs
\* to a GVM whose record exists and holds a pid: a GVM that is destroyed or
\* whose record has no pid has no live process.
C37_NoOrphans ==
    (\A h \in Threads : th[h].pc = "idle") =>
        \A p \in procs : \E r \in instances : r.id = p.id /\ r.vm_pid # NoPid

\* C38: when a create request returns, either it succeeded and the record of
\* the new id and the tuple of its port under that id both exist, or it
\* failed and neither a record nor a port tuple of the new id exists.
C38_CreateAllOrNothing ==
    [][\A h \in Threads :
          (th[h].op = "create" /\ th[h].pc # "done" /\ th'[h].pc = "done") =>
              LET t == th'[h]
              IN  IF t.result = "Ok"
                  THEN /\ \E r \in instances' : r.id = t.inst.id /\ r.rpc_port = t.port
                       /\ \E p \in ports' : p.instance_id = t.inst.id /\ p.port = t.port
                  ELSE /\ \A r \in instances' : r.id # t.inst.id
                       /\ \A p \in ports' : p.instance_id # t.inst.id]_vars

\* the commands of a handler that were acknowledged: all it sent but the one
\* that failed
Acknowledged(t) ==
    IF t.err = "qmp" /\ t.cmds # <<>> THEN SubSeq(t.cmds, 1, Len(t.cmds) - 1) ELSE t.cmds

IsVcpuCommand(c) == c \in {"stop", "cont"}

\* C39: when a handler returns and leaves the record of its GVM Paused, the
\* last vcpu-state command the hypervisor acknowledged to it was stop and not
\* continue.
C39_PausedMeansFrozen ==
    [][\A h \in Threads :
          (th[h].op \in LifecycleOps /\ th[h].pc # "done" /\ th'[h].pc = "done") =>
              \A r \in instances' :
                  (r.id = th'[h].inst.id /\ r.status.tag = "Paused") =>
                      LET vc == SelectSeq(Acknowledged(th'[h]), IsVcpuCommand)
                      IN  vc = <<>> \/ vc[Len(vc)] = "stop"]_vars

\* C40: when a destroy request that had found its GVM returns an error, the
\* record and the storage of that GVM exist and the step removed no port
\* tuple; and when no request is in flight every record has its storage.
C40_FailedDestroyIntact ==
    [][/\ \A h \in Threads :
             (/\ th[h].op = "delete" /\ th[h].pc # "done" /\ th'[h].pc = "done"
              /\ th'[h].result # "Ok" /\ th'[h].inst # NoInst) =>
                 /\ \E r \in instances' : r.id = th'[h].inst.id
                 /\ th'[h].inst.id \in storage'
                 /\ ports \subseteq ports'
       /\ (\A h \in Threads : th'[h].pc = "idle") =>
             \A r \in instances' : r.id \in storage']_vars
====
